---------------------------- MODULE Spec2Model ----------------------------
(***************************************************************************)
(* A model of cprices.utils.spark_helpers.concat and its helpers, and of    *)
(* cprices.config.Config.get_config_dir.                                   *)
(*                                                                         *)
(* A pyspark DataFrame is modelled as an ordered list of typed columns     *)
(* plus its rows; every row keeps the identity <<table, row>> of the       *)
(* source row it was made from, and every cell says whether it holds a     *)
(* source value, a NULL or a literal, and the type it was last cast to.    *)
(* One call of concat is one behaviour: Init draws the arguments, and the  *)
(* actions are the successive blocks of the function body.                 *)
(*                                                                         *)
(* Domain of the inputs: every table has at least one column and distinct  *)
(* column names; tag names are distinct from each other and from the data  *)
(* column names.  The labelling of the diagnostic frame in                 *)
(* _get_schemas_df (pandas MultiIndex) is taken not to raise.              *)
(*                                                                         *)
(* One call of Config.get_config_dir is one behaviour of SpecConfig: its   *)
(* Init draws the value of CPRICES_CONFIG, the paths that exist, which of   *)
(* them are folders, and the current working directory.  A str that names  *)
(* a path is modelled as the sequence of its separators "/" and of the     *)
(* names between them.                                                     *)
(*                                                                         *)
(* One call of a method of a Config object (set_attrs, extend_attr,        *)
(* DevConfig.add_strata) or of validation.check_config_sections_exist is   *)
(* one behaviour of SpecObject: its Init draws the attributes of the       *)
(* object and the arguments.  A dict, and the __dict__ of the object, is   *)
(* an ordered list of keys with their values.                              *)
(***************************************************************************)
EXTENDS Integers, Sequences, FiniteSets, TLC

VARIABLES
    arg_frames,       \* the caller's first argument, never assigned by concat
    arg_keys,         \* the caller's keys argument
    arg_names,        \* the caller's names argument
    frames,           \* local `frames` (a list once normalised)
    keys,             \* local `keys`
    names,            \* local `names`
    col_schemas,      \* local `col_schemas`, a set of (name, dtype)
    schemas_are_equal,\* local `schemas_are_equal`
    warnings,         \* UnequalSchemaWarning messages emitted so far
    idx,              \* position of the running loop
    resolved,         \* per column name, how often lines 325-339 resolved it
    frames_to_concat, \* local `frames_to_concat`
    result,           \* the returned DataFrame, once returned
    error,            \* the raised exception, once raised
    pc,               \* the block of concat about to run
    environ,          \* os.environ: the value of CPRICES_CONFIG, or None
    exists,           \* the file system: the paths that exist
    is_dir,           \* the file system: the paths that are folders
    cwd,              \* Path.cwd()
    loc,              \* position of the loop over the locations
    config_dir,       \* the value get_config_dir returned, once returned
    config_pc,        \* the block of get_config_dir about to run
    method,           \* the function called on the Config object
    self_dict,        \* vars(self): the attributes of the Config object
    self_before,      \* vars(self) when the call began
    arg,              \* the first argument, an object the call may change
    arg_before,       \* the first argument when the call began
    arg2,             \* the second argument
    step,             \* position of the loop of the method
    exc,              \* the exception raised, once raised
    method_pc         \* the block of the method about to run

concat_vars ==
    <<arg_frames, arg_keys, arg_names, frames, keys, names, col_schemas,
      schemas_are_equal, warnings, idx, resolved, frames_to_concat, result,
      error, pc>>

config_vars == <<environ, exists, is_dir, cwd, loc, config_dir, config_pc>>

object_vars ==
    <<method, self_dict, self_before, arg, arg_before, arg2, step, exc,
      method_pc>>

vars == <<concat_vars, config_vars, object_vars>>

-----------------------------------------------------------------------------
(* Bounds of the model.                                                    *)

MaxFrames == 3

MaxRows == 2

MaxParts == 2

\* The longest list of names a method of Config is given.
MaxVals == 2

-----------------------------------------------------------------------------
(* Python and Spark values.                                                *)

\* The order of these is important, big ---> small.
SPARK_NUMBER_TYPES ==
    <<"decimal(10,0)", "double", "float", "bigint", "int", "smallint",
      "tinyint">>

NumberTypes == {SPARK_NUMBER_TYPES[i] : i \in 1..Len(SPARK_NUMBER_TYPES)}

Range(s) == {s[i] : i \in 1..Len(s)}

\* A Python None, str, tuple or list of str: `items` holds the elements of
\* a tuple or list, and the one string of a str.
PyNone == [kind |-> "none", items |-> <<>>]

PyStr(s) == [kind |-> "str", items |-> <<s>>]

PyTuple(s) == [kind |-> "tuple", items |-> s]

PyList(s) == [kind |-> "list", items |-> s]

\* bool(x) of a None, str, tuple or list.
Truthy(x) == x.kind # "none" /\ x.items # <<>>

\* What list_convert(None) holds: the None object itself.
NoneItem == "None"

Col(name, dtype) == [name |-> name, dtype |-> dtype]

DataCell(t, r, c, dtype) ==
    [src |-> "data", tab |-> t, row |-> r, col |-> c, val |-> "",
     dtype |-> dtype]

\* F.lit(None)
NullCell ==
    [src |-> "null", tab |-> 0, row |-> 0, col |-> "", val |-> "",
     dtype |-> "null"]

\* F.lit(part): the type is inferred from the literal, a str.
LitCell(part) ==
    [src |-> "lit", tab |-> 0, row |-> 0, col |-> "", val |-> part,
     dtype |-> "string"]

\* Column.cast(dtype): the value keeps its origin, NULL stays NULL.
Cast(cell, dtype) == [cell EXCEPT !.dtype = dtype]

\* The DataFrame number t with the given schema and n rows.
MkTable(t, schema, n) ==
    [isdf |-> TRUE,
     cols |-> schema,
     rows |-> [r \in 1..n |->
                 [id |-> <<t, r>>,
                  cells |-> [c \in 1..Len(schema) |->
                               DataCell(t, r, schema[c].name, schema[c].dtype)]]]]

\* An object that is not a DataFrame.
NotAFrame == [isdf |-> FALSE, cols |-> <<>>, rows |-> <<>>]

\* DataFrame.columns
Columns(frame) == [c \in 1..Len(frame.cols) |-> frame.cols[c].name]

\* set(DataFrame.dtypes)
DtypeSet(frame) == Range(frame.cols)

ColPos(frame, name) == CHOOSE c \in 1..Len(frame.cols) : frame.cols[c].name = name

DtypeOf(frame, name) == frame.cols[ColPos(frame, name)].dtype

HasCol(frame, name) == name \in Range(Columns(frame))

\* withColumn with the cast of the NULL literal forgotten.
WithColumnNullUncast(frame, column, dtype) ==
    IF HasCol(frame, column)
    THEN LET p == ColPos(frame, column) IN
         [frame EXCEPT
            !.cols = [frame.cols EXCEPT ![p] = Col(column, dtype)],
            !.rows = [r \in 1..Len(frame.rows) |->
                        [frame.rows[r] EXCEPT
                           !.cells = [@ EXCEPT ![p] = Cast(@, dtype)]]]]
    ELSE [frame EXCEPT
            !.cols = Append(frame.cols, Col(column, NullCell.dtype)),
            !.rows = [r \in 1..Len(frame.rows) |->
                        [frame.rows[r] EXCEPT !.cells = Append(@, NullCell)]]]

\* withColumn for the columns the frame has only, a missing column left
\* missing.
WithColumnExisting(frame, column, dtype) ==
    IF HasCol(frame, column)
    THEN LET p == ColPos(frame, column) IN
         [frame EXCEPT
            !.cols = [frame.cols EXCEPT ![p] = Col(column, dtype)],
            !.rows = [r \in 1..Len(frame.rows) |->
                        [frame.rows[r] EXCEPT
                           !.cells = [@ EXCEPT ![p] = Cast(@, dtype)]]]]
    ELSE frame

\* frame.withColumn(column, vals.cast(dtype)) with vals = F.lit(None) when
\* the frame lacks the column and F.col(column) otherwise: an existing
\* column is replaced in place, a new one is appended.
WithColumnCast(frame, column, dtype) ==
    IF HasCol(frame, column)
    THEN LET p == ColPos(frame, column) IN
         [frame EXCEPT
            !.cols = [frame.cols EXCEPT ![p] = Col(column, dtype)],
            !.rows = [r \in 1..Len(frame.rows) |->
                        [frame.rows[r] EXCEPT
                           !.cells = [@ EXCEPT ![p] = Cast(@, dtype)]]]]
    ELSE [frame EXCEPT
            !.cols = Append(frame.cols, Col(column, dtype)),
            !.rows = [r \in 1..Len(frame.rows) |->
                        [frame.rows[r] EXCEPT
                           !.cells = Append(@, Cast(NullCell, dtype))]]]

\* frame.select(F.lit(part).alias(name)), the '*' forgotten.
SelectLitOnly(frame, name, part) ==
    [frame EXCEPT
       !.cols = <<Col(name, "string")>>,
       !.rows = [r \in 1..Len(frame.rows) |->
                   [frame.rows[r] EXCEPT !.cells = <<LitCell(part)>>]]]

\* frame.select(F.lit(part).alias(name), '*')
SelectLit(frame, name, part) ==
    [frame EXCEPT
       !.cols = <<Col(name, "string")>> \o frame.cols,
       !.rows = [r \in 1..Len(frame.rows) |->
                   [frame.rows[r] EXCEPT !.cells = <<LitCell(part)>> \o @]]]

NoDuplicates(s) == \A i, j \in 1..Len(s) : s[i] = s[j] => i = j

\* SparkDF.unionByName raises unless both sides have the same column names.
CanUnion(left, right) ==
    /\ NoDuplicates(Columns(left))
    /\ NoDuplicates(Columns(right))
    /\ Range(Columns(left)) = Range(Columns(right))

\* SparkDF.union: the rows of the right frame are taken by position.
UnionByPosition(left, right) == [left EXCEPT !.rows = @ \o right.rows]

\* SparkDF.unionByName: the columns of the left frame, the rows of the
\* left frame followed by those of the right, resolved by column name.
UnionByName(left, right) ==
    [left EXCEPT
       !.rows = @ \o
          [r \in 1..Len(right.rows) |->
             [right.rows[r] EXCEPT
                !.cells = [c \in 1..Len(left.cols) |->
                             right.rows[r].cells[ColPos(right, left.cols[c].name)]]]]]

-----------------------------------------------------------------------------
(* The helpers of concat.                                                  *)

\* list_convert: a list or tuple is returned as it is, anything else
\* becomes a one-element list.
list_convert(x) ==
    IF x.kind \in {"list", "tuple"} THEN x
    ELSE IF x.kind = "none" THEN PyList(<<NoneItem>>)
    ELSE PyList(x.items)

_get_column_types(column_schemas, column_name) ==
    {p.dtype : p \in {q \in column_schemas : q.name = column_name}}

_are_all_number_types(dtypes) == \A dtype \in dtypes : dtype \in NumberTypes

\* The last member of SPARK_NUMBER_TYPES that is in dtypes.
SmallestNumberDtype(dtypes) ==
    SPARK_NUMBER_TYPES[
        CHOOSE i \in 1..Len(SPARK_NUMBER_TYPES) :
            /\ SPARK_NUMBER_TYPES[i] \in dtypes
            /\ \A j \in (i + 1)..Len(SPARK_NUMBER_TYPES) :
                  SPARK_NUMBER_TYPES[j] \notin dtypes]

\* The first member of SPARK_NUMBER_TYPES that is in dtypes.
_get_largest_number_dtype(dtypes) ==
    SPARK_NUMBER_TYPES[
        CHOOSE i \in 1..Len(SPARK_NUMBER_TYPES) :
            /\ SPARK_NUMBER_TYPES[i] \in dtypes
            /\ \A j \in 1..(i - 1) : SPARK_NUMBER_TYPES[j] \notin dtypes]

Raise == "<raise>"

\* The resolution with string winning over number types only.
ResolveStringOverNumbers(col_dtypes, dtype) ==
    IF Cardinality(col_dtypes) > 1
    THEN IF _are_all_number_types(col_dtypes)
         THEN _get_largest_number_dtype(col_dtypes)
         ELSE IF \A d \in col_dtypes : d = "string" \/ d \in NumberTypes
         THEN "string"
         ELSE Raise
    ELSE dtype

\* The resolution with string as the last resort instead of an error.
ResolveGuessString(col_dtypes, dtype) ==
    IF Cardinality(col_dtypes) > 1
    THEN IF _are_all_number_types(col_dtypes)
         THEN _get_largest_number_dtype(col_dtypes)
         ELSE "string"
    ELSE dtype

\* The resolution with the largest number type computed but not assigned:
\* the dtype of the schema entry stays.
ResolveNumbersUnassigned(col_dtypes, dtype) ==
    IF Cardinality(col_dtypes) > 1
    THEN IF _are_all_number_types(col_dtypes)
         THEN dtype
         ELSE IF \E d \in col_dtypes : d = "string"
         THEN "string"
         ELSE Raise
    ELSE dtype

\* The if/elif/else of _ensure_consistent_schema: the dtype to cast to for
\* a schema entry (column, dtype), or Raise.
ResolveDtype(col_dtypes, dtype) ==
    IF Cardinality(col_dtypes) > 1
    THEN IF _are_all_number_types(col_dtypes)
         THEN _get_largest_number_dtype(col_dtypes)
         ELSE IF \E d \in col_dtypes : d = "string"
         THEN "string"
         ELSE Raise
    ELSE dtype

NoError == [type |-> "", msg |-> "", column |-> "", dtypes |-> {}]

Err(type, msg) == [type |-> type, msg |-> msg, column |-> "", dtypes |-> {}]

TypeConflict(column, dtypes) ==
    [type |-> "TypeError", msg |-> "Spark column data type mismatch",
     column |-> column, dtypes |-> dtypes]

\* The loop with the cast left out for a column the frame already has:
\* only the missing columns are added.
RECURSIVE EnsureLoopFillOnly(_, _, _, _, _)
EnsureLoopFillOnly(frame, order, k, column_schemas, done) ==
    IF k > Len(order)
    THEN [frame |-> frame, error |-> NoError, resolved |-> done]
    ELSE LET column == order[k].name
             col_dtypes == _get_column_types(column_schemas, column)
             dtype == ResolveDtype(col_dtypes, order[k].dtype)
             now == IF Cardinality(col_dtypes) > 1 THEN Append(done, column)
                    ELSE done
         IN  IF dtype = Raise
             THEN [frame |-> frame, error |-> TypeConflict(column, col_dtypes),
                   resolved |-> now]
             ELSE EnsureLoopFillOnly(
                      IF HasCol(frame, column) THEN frame
                      ELSE WithColumnCast(frame, column, dtype),
                      order, k + 1, column_schemas, now)

\* The body of the for loop of _ensure_consistent_schema for the entries
\* order[k..]: the loop stops at the first entry that raises.  done lists
\* the column names for which the if of line 325 was entered so far.
RECURSIVE EnsureLoop(_, _, _, _, _)
EnsureLoop(frame, order, k, column_schemas, done) ==
    IF k > Len(order)
    THEN [frame |-> frame, error |-> NoError, resolved |-> done]
    ELSE LET column == order[k].name
             col_dtypes == _get_column_types(column_schemas, column)
             dtype == ResolveDtype(col_dtypes, order[k].dtype)
             now == IF Cardinality(col_dtypes) > 1 THEN Append(done, column)
                    ELSE done
         IN  IF dtype = Raise
             THEN [frame |-> frame, error |-> TypeConflict(column, col_dtypes),
                   resolved |-> now]
             ELSE EnsureLoop(WithColumnCast(frame, column, dtype), order,
                             k + 1, column_schemas, now)

\* Every entry of column_schemas, those of the frame included.
AllEntries(frame, column_schemas) == column_schemas

\* column_schemas - set(frame.dtypes)
EntriesToVisit(frame, column_schemas) == column_schemas \ DtypeSet(frame)

\* The count per column name after the names of more are added.
Tally(count, more) ==
    [n \in DOMAIN count \cup Range(more) |->
        (IF n \in DOMAIN count THEN count[n] ELSE 0)
        + Cardinality({i \in 1..Len(more) : more[i] = n})]

\* The orders in which a Python set can be iterated.
Orders(S) ==
    {o \in [1..Cardinality(S) -> S] : \A i, j \in 1..Cardinality(S) : o[i] = o[j] => i = j}

\* _ensure_consistent_schema(frame, column_schemas), iterating the set
\* column_schemas - set(frame.dtypes) in the given order.
_ensure_consistent_schema(frame, column_schemas, order) ==
    EnsureLoop(frame, order, 1, column_schemas, <<>>)

\* Names in first-seen order across the frames (the index of schemas_df).
RECURSIVE SchemaIndex(_, _)
SchemaIndex(fs, k) ==
    IF k = 0 THEN <<>>
    ELSE LET before == SchemaIndex(fs, k - 1) IN
         before \o SelectSeq(Columns(fs[k]), LAMBDA n : n \notin Range(before))

NaN == "NaN"

\* _get_schemas_df: for every column name, the dtype in each frame, NaN
\* where the frame has no such column.
_get_schemas_df(fs) ==
    [n \in Range(SchemaIndex(fs, Len(fs))) |->
        [i \in 1..Len(fs) |-> IF HasCol(fs[i], n) THEN DtypeOf(fs[i], n) ELSE NaN]]

\* A comparison that lets a missing dtype match any dtype.
PdEqSkipNaN(a, b) == a = NaN \/ b = NaN \/ a = b

\* pandas ==: NaN equals nothing, itself included.
PdEq(a, b) == a # NaN /\ b # NaN /\ a = b

\* equal_schemas of _compare_schemas: per column name, whether every
\* frame has the dtype of the first frame.
EqualSchemas(fs) ==
    LET schemas_df == _get_schemas_df(fs) IN
    [n \in DOMAIN schemas_df |->
        \A i \in 1..Len(fs) : PdEq(schemas_df[n][i], schemas_df[n][1])]

\* A comparison that asks only whether every column name has one dtype
\* among the frames that have the column.
OneDtypePerColumn(fs) ==
    \A n \in DOMAIN _get_schemas_df(fs) :
        Cardinality(Range(_get_schemas_df(fs)[n]) \ {NaN}) = 1

\* The return value of _compare_schemas.
_compare_schemas(fs) ==
    \A n \in DOMAIN EqualSchemas(fs) : EqualSchemas(fs)[n]

\* The rows of schemas_df that the UnequalSchemaWarning displays.
UnequalRows(fs) == {n \in DOMAIN EqualSchemas(fs) : ~EqualSchemas(fs)[n]}

NoTable == [isdf |-> FALSE, cols |-> <<>>, rows |-> <<>>]

\* functools.reduce(union, fs) from the k-th element on, acc being the
\* union so far; a union that raises ends the reduction.
RECURSIVE ReduceFrom(_, _, _)
ReduceFrom(fs, k, acc) ==
    IF k > Len(fs) THEN [ok |-> TRUE, table |-> acc]
    ELSE IF ~CanUnion(acc, fs[k]) THEN [ok |-> FALSE, table |-> NoTable]
    ELSE ReduceFrom(fs, k + 1, UnionByName(acc, fs[k]))

\* functools.reduce(SparkDF.unionByName, fs) of a non-empty list.
ReduceUnion(fs) == ReduceFrom(fs, 2, fs[1])

\* The inner loop of the tagging: for name, part in
\* reversed(tuple(zip(names, parts))), from the k-th pair down.
RECURSIVE TagLoop(_, _, _, _)
TagLoop(frame, names_, parts, k) ==
    IF k = 0 THEN frame
    ELSE TagLoop(SelectLit(frame, names_[k], parts[k]), names_, parts, k - 1)

Min(a, b) == IF a < b THEN a ELSE b

\* The tagging loop without reversed(): the pairs are taken first to last.
RECURSIVE TagLoopForward(_, _, _, _)
TagLoopForward(frame, names_, parts, k) ==
    IF k > Min(Len(names_), Len(parts)) THEN frame
    ELSE TagLoopForward(SelectLit(frame, names_[k], parts[k]), names_, parts, k + 1)

TagFrameForward(frame, names_, parts) == TagLoopForward(frame, names_, parts, 1)

\* for name, part in reversed(tuple(zip(names, parts))):
\*     frame = frame.select(F.lit(part).alias(name), '*')
TagFrameWith(frame, names_, parts) ==
    TagLoop(frame, names_, parts, Min(Len(names_), Len(parts)))

-----------------------------------------------------------------------------
(* The arguments of a call.                                                *)

\* The first argument: a single DataFrame ("frame"), a list or tuple
\* ("list"), a sized iterable that is no abc.Sequence such as a dict view
\* or a set ("view"), or a mapping ("mapping", whose i-th item is
\* mkeys[i] : items[i] in insertion order).
FramesArg(kind, items, mkeys) == [kind |-> kind, items |-> items, mkeys |-> mkeys]

TagNames == <<"src", "sup", "itm", "lvl">>

\* The j-th part of the key of the i-th table.
KeyPart(i, j) == ToString(10 * i + j)

\* The key of the i-th table: a str (shape 0) or a tuple of shape parts.
KeyOf(i, shape) ==
    IF shape = 0 THEN PyStr(KeyPart(i, 1))
    ELSE PyTuple([j \in 1..shape |-> KeyPart(i, j)])

\* names: None, a str (shape 0, given) or a list of shape names.
NamesOf(given, shape) ==
    IF ~given THEN PyNone
    ELSE IF shape = 0 THEN PyStr(TagNames[1])
    ELSE PyList([j \in 1..shape |-> TagNames[j]])

\* Schemas over the columns x and y; y is always a string column.
SomeTypes == {"int", "double"}

Schemas ==
    {<<Col("x", t)>> : t \in SomeTypes}
    \cup {<<Col("y", "string")>>}
    \cup {<<Col("x", t), Col("y", "string")>> : t \in SomeTypes}
    \cup {<<Col("y", "string"), Col("x", t)>> : t \in SomeTypes}

\* Single-column schemas over every type, and one without the column.
TypeSchemas ==
    [i \in 1..Len(SPARK_NUMBER_TYPES) |-> <<Col("x", SPARK_NUMBER_TYPES[i])>>]
    \o <<<<Col("x", "string")>>, <<Col("x", "boolean")>>, <<Col("x", "date")>>,
         <<Col("y", "string")>>>>

\* The sequences of length n over 1..m that ascend or descend strictly.
Monotone(n, m) ==
    {q \in [1..n -> 1..m] :
        \/ \A i \in 1..(n - 1) : q[i] < q[i + 1]
        \/ \A i \in 1..(n - 1) : q[i] > q[i + 1]}

\* Fixed families of schemas by position in the batch.
Family(f, i) ==
    CASE f = "same" -> <<Col("x", "int"), Col("y", "string")>>
      [] f = "mixed" -> IF i % 2 = 1 THEN <<Col("x", "int"), Col("y", "string")>>
                        ELSE <<Col("y", "string"), Col("x", "double")>>
      [] f = "clash" -> IF i % 2 = 1 THEN <<Col("x", "boolean")>>
                        ELSE <<Col("x", "date"), Col("y", "string")>>

Families == {"same", "mixed", "clash"}

RowsFor(i) == ((i - 1) % MaxRows) + 1

\* Key sequences of length len: every key of one shape, or exactly one key
\* of another shape.
KeySeqs(len) ==
    {[i \in 1..len |-> KeyOf(i, s)] : s \in 0..MaxParts}
    \cup {[i \in 1..len |-> KeyOf(i, IF i = d THEN t ELSE s)] :
            <<s, t, d>> \in (0..MaxParts) \X (0..MaxParts) \X ({1, len} \ {0})}

KeysArgs(n) ==
    {PyNone} \cup {PyList(ks) : ks \in UNION {KeySeqs(len) : len \in 0..(n + 1)}}

NamesArgs ==
    {PyNone, NamesOf(TRUE, 0), PyList(<<>>), NamesOf(TRUE, MaxParts)}

\* The call concat(fr, ks, ns) is about to run.
-----------------------------------------------------------------------------
(* Paths.                                                                  *)

\* A str given by its separators and the names between them.
StrOf(tokens) == [kind |-> "str", items |-> tokens]

\* No path: the None a function returns by falling off its end.
NoPath == [kind |-> "none", root |-> FALSE, parts |-> <<>>]

\* pathlib.Path(s) of a str: the names of the path, the separators, empty
\* names and "." dropped; the path is rooted when the str starts with "/".
Path(s) ==
    [kind |-> "path",
     root |-> Len(s.items) > 0 /\ s.items[1] = "/",
     parts |-> SelectSeq(s.items, LAMBDA t : t \notin {"/", "."})]

\* Path.joinpath(*names)
joinpath(path, names_) == [path EXCEPT !.parts = @ \o names_]

\* Path.home()
Home == Path(StrOf(<<"/", "home", "/", "user">>))

\* A dict: its keys in insertion order and the value of each.
PyDict(ks, vs) == [kind |-> "mapping", items |-> ks, vals |-> vs]

\* No method of a Config object is under way.
ObjectIdle ==
    /\ method = ""
    /\ self_dict = PyDict(<<>>, <<>>)
    /\ self_before = PyDict(<<>>, <<>>)
    /\ arg = PyNone
    /\ arg_before = PyNone
    /\ arg2 = PyNone
    /\ step = 0
    /\ exc = [type |-> "", msg |-> "", column |-> "", dtypes |-> {}]
    /\ method_pc = "idle"

\* No call of get_config_dir is under way.
ConfigIdle ==
    /\ environ = PyNone
    /\ exists = {}
    /\ is_dir = {}
    /\ cwd = Home
    /\ loc = 0
    /\ config_dir = NoPath
    /\ config_pc = "idle"

Start(fr, ks, ns) ==
    /\ ConfigIdle
    /\ ObjectIdle
    /\ arg_frames = fr
    /\ arg_keys = ks
    /\ arg_names = ns
    /\ frames = fr.items
    /\ keys = ks
    /\ names = ns
    /\ col_schemas = {}
    /\ schemas_are_equal = TRUE
    /\ warnings = <<>>
    /\ idx = 0
    /\ resolved = <<>>
    /\ frames_to_concat = <<>>
    /\ result = [isdf |-> FALSE, cols |-> <<>>, rows |-> <<>>]
    /\ error = [type |-> "", msg |-> "", column |-> "", dtypes |-> {}]
    /\ pc = "normalise"

\* Calls on a list of tables with every schema, with no keys or with one
\* well-formed key per table.
SchemaCalls ==
    \E n \in 1..MaxFrames : \E sch \in [1..n -> Schemas] :
        LET fr == FramesArg("list", [i \in 1..n |-> MkTable(i, sch[i], RowsFor(i))], <<>>)
        IN  \/ Start(fr, PyNone, PyNone)
            \/ Start(fr, PyList([i \in 1..n |-> KeyOf(i, MaxParts)]),
                     NamesOf(TRUE, MaxParts))

\* Calls on a list of one-column tables of every type, one str key each.
TypeCalls ==
    \E n \in 1..MaxFrames : \E q \in Monotone(n, Len(TypeSchemas)) :
        Start(FramesArg("list",
                        [i \in 1..n |-> MkTable(i, TypeSchemas[q[i]], RowsFor(i))], <<>>),
              PyList([i \in 1..n |-> KeyOf(i, 0)]), NamesOf(TRUE, 0))

\* Calls on a list of tables with every number of rows.
RowCalls ==
    \E n \in 1..MaxFrames : \E rc \in [1..n -> 0..MaxRows] :
        Start(FramesArg("list", [i \in 1..n |-> MkTable(i, Family("mixed", i), rc[i])], <<>>),
              PyList([i \in 1..n |-> KeyOf(i, 0)]), NamesOf(TRUE, 0))

\* Calls on a list or a view of tables with every shape of keys and names.
ArityCalls ==
    \E kind \in {"list", "view"} : \E n \in 1..MaxFrames : \E f \in Families :
    \E ks \in KeysArgs(n) : \E ns \in NamesArgs :
        Start(FramesArg(kind, [i \in 1..n |-> MkTable(i, Family(f, i), RowsFor(i))], <<>>),
              ks, ns)

InjectiveSeqs(n, len) ==
    {q \in [1..len -> 1..n] : \A i, j \in 1..len : q[i] = q[j] => i = j}

\* The keys argument with a mapping whose keys are mkeys: None, a
\* selection of the mapping's keys in any order, or a key it does not have.
Selections(mkeys, shape) ==
    {PyNone, PyList(<<KeyOf(Len(mkeys) + 1, shape)>>)}
    \cup {PyList([j \in 1..Len(q) |-> mkeys[q[j]]]) :
            q \in UNION {InjectiveSeqs(Len(mkeys), len) : len \in 1..Len(mkeys)}}

\* The rotations of 1..n.
Rotations(n) == {[i \in 1..n |-> ((i + k) % n) + 1] : k \in 1..n}

\* Calls on a mapping, in several insertion orders of its keys.
MappingCalls ==
    \E n \in 1..MaxFrames : \E perm \in Rotations(n) : \E shape \in {0, MaxParts} :
        LET mkeys == [i \in 1..n |-> KeyOf(perm[i], shape)] IN
        \E ks \in Selections(mkeys, shape) :
        \E ns \in {PyNone, NamesOf(TRUE, 0), NamesOf(TRUE, MaxParts)} :
            Start(FramesArg("mapping",
                            [i \in 1..n |-> MkTable(i, Family("mixed", i), RowsFor(i))],
                            mkeys),
                  ks, ns)

\* Schemas with two columns that a table of the single column x lacks.
WideSchemas ==
    {<<Col("y", "string"), Col("z", "int")>>,
     <<Col("z", "int"), Col("y", "string")>>}

\* Calls on a list whose first table has the column x only and whose other
\* tables have the columns y and z, with no keys or one str key per table.
WideCalls ==
    \E n \in 2..MaxFrames : \E sch \in [2..n -> WideSchemas] :
        LET fr == FramesArg("list",
                            [i \in 1..n |->
                               MkTable(i, IF i = 1 THEN <<Col("x", "int")>> ELSE sch[i],
                                       RowsFor(i))], <<>>)
        IN  \/ Start(fr, PyNone, PyNone)
            \/ Start(fr, PyList([i \in 1..n |-> KeyOf(i, 0)]), NamesOf(TRUE, 0))

\* Calls that are no batch of tables: a single DataFrame, an empty
\* collection, a collection with an element that is no DataFrame.
OtherCalls ==
    \/ \E kn \in {<<PyNone, PyNone>>, <<PyList(<<KeyOf(1, 0)>>), NamesOf(TRUE, 0)>>} :
         Start(FramesArg("frame", <<MkTable(1, Family("same", 1), 1)>>, <<>>), kn[1], kn[2])
    \/ \E kind \in {"list", "view", "mapping"} :
       \E kn \in {<<PyNone, PyNone>>, <<PyNone, NamesOf(TRUE, 0)>>,
                  <<PyList(<<KeyOf(1, 0)>>), NamesOf(TRUE, 0)>>} :
         Start(FramesArg(kind, <<>>, <<>>), kn[1], kn[2])
    \/ \E kind \in {"list", "view", "mapping"} : \E n \in 1..MaxFrames :
       \E bad \in 1..n : \E f \in Families :
         Start(FramesArg(kind,
                         [i \in 1..n |-> IF i = bad THEN NotAFrame
                                         ELSE MkTable(i, Family(f, i), RowsFor(i))],
                         IF kind = "mapping" THEN [i \in 1..n |-> KeyOf(i, 0)] ELSE <<>>),
               PyList([i \in 1..n |-> KeyOf(i, 0)]), NamesOf(TRUE, 0))

-----------------------------------------------------------------------------
(* concat.                                                                 *)

Init ==
    \/ SchemaCalls
    \/ TypeCalls
    \/ RowCalls
    \/ ArityCalls
    \/ WideCalls
    \/ MappingCalls
    \/ OtherCalls

RaiseError(e) ==
    /\ error' = e
    /\ pc' = "raised"

Return(table) ==
    /\ result' = table
    /\ pc' = "returned"

\* frames[k] of a mapping: the position of key k, 0 for a KeyError.
Lookup(k) ==
    IF k \in Range(arg_frames.mkeys)
    THEN CHOOSE i \in 1..Len(arg_frames.mkeys) : arg_frames.mkeys[i] = k
    ELSE 0

\* The keys list(frames.keys()) of a mapping, or the given keys.
MappingKeys == IF keys.kind = "none" THEN PyList(arg_frames.mkeys) ELSE keys

\* list(frames.values()): every table of the mapping, the keys ignored.
SelectAllValues(ks) == arg_frames.items

\* [frames[k] for k in keys]
SelectFrames(ks) ==
    [j \in 1..Len(ks.items) |-> arg_frames.items[Lookup(ks.items[j])]]

\* An emptiness test that only a list is put to.
NoObjectsInList(fr) == fr.kind = "list" /\ Len(fr.items) = 0

\* len(frames) == 0
NoObjects(fr) == Len(fr.items) = 0

\* Lines 145-173: the checks on the arguments and the conversion of
\* frames to a list.
Normalise ==
    /\ pc = "normalise"
    /\ IF arg_frames.kind = "frame"
       THEN /\ RaiseError(Err("TypeError", "first argument must be an iterable"))
            /\ UNCHANGED <<frames, keys>>
       ELSE IF NoObjects(arg_frames)
       THEN /\ RaiseError(Err("ValueError", "No objects to concatenate"))
            /\ UNCHANGED <<frames, keys>>
       ELSE IF /\ arg_frames.kind = "list"
               /\ Truthy(keys)
               /\ Len(arg_frames.items) # Len(keys.items)
       THEN /\ RaiseError(Err("ValueError", "keys must be same length as frames"))
            /\ UNCHANGED <<frames, keys>>
       ELSE IF arg_frames.kind = "mapping"
       THEN IF names.kind = "none"
            THEN /\ RaiseError(Err("ValueError", "the names argument must be given"))
                 /\ UNCHANGED <<frames, keys>>
            ELSE IF \E j \in 1..Len(MappingKeys.items) : Lookup(MappingKeys.items[j]) = 0
            THEN /\ RaiseError(Err("KeyError", "frames[k]"))
                 /\ keys' = MappingKeys
                 /\ UNCHANGED frames
            ELSE /\ keys' = MappingKeys
                 /\ frames' = SelectFrames(MappingKeys)
                 /\ pc' = "collect"
                 /\ UNCHANGED error
       ELSE /\ frames' = arg_frames.items
            /\ pc' = "collect"
            /\ UNCHANGED <<keys, error>>
    /\ UNCHANGED <<arg_frames, arg_keys, arg_names, names, col_schemas,
                   schemas_are_equal, warnings, idx, frames_to_concat, result>>
    /\ UNCHANGED resolved
    /\ UNCHANGED config_vars
    /\ UNCHANGED object_vars

\* A type test that only the first element is put to.
FirstIsNoFrame(fs) == Len(fs) > 0 /\ ~fs[1].isdf

\* not isinstance(frame, SparkDF), for some frame of the loop.
SomeIsNoFrame(fs) == \E i \in 1..Len(fs) : ~fs[i].isdf

\* Lines 175-183: every element must be a DataFrame; col_schemas collects
\* the (name, dtype) of every column of every frame.
CollectSchemas ==
    /\ pc = "collect"
    /\ IF SomeIsNoFrame(frames)
       THEN /\ RaiseError(Err("TypeError", "cannot concatenate object"))
            /\ col_schemas' =
                 UNION {DtypeSet(frames[i]) :
                          i \in {j \in 1..Len(frames) :
                                   \A k \in 1..j : frames[k].isdf}}
       ELSE /\ col_schemas' = UNION {DtypeSet(frames[i]) : i \in 1..Len(frames)}
            /\ pc' = "compare"
            /\ UNCHANGED error
    /\ UNCHANGED <<arg_frames, arg_keys, arg_names, frames, keys, names,
                   schemas_are_equal, warnings, idx, frames_to_concat, result>>
    /\ UNCHANGED resolved
    /\ UNCHANGED config_vars
    /\ UNCHANGED object_vars

\* Line 185: _compare_schemas warns when the schemas are unequal.
CompareSchemas ==
    /\ pc = "compare"
    /\ schemas_are_equal' = _compare_schemas(frames)
    /\ warnings' = IF _compare_schemas(frames) THEN warnings
                   ELSE Append(warnings, UnequalRows(frames))
    /\ idx' = 1
    /\ pc' = IF _compare_schemas(frames) THEN "branch" ELSE "ensure"
    /\ UNCHANGED <<arg_frames, arg_keys, arg_names, frames, keys, names,
                   col_schemas, frames_to_concat, result, error>>
    /\ UNCHANGED resolved
    /\ UNCHANGED config_vars
    /\ UNCHANGED object_vars

\* The frame idx made consistent in place, frames[idx] = ..., in a list
\* that is the caller's own.
EnsureFrameInPlace ==
    /\ pc = "ensure"
    /\ idx <= Len(frames)
    /\ \E order \in Orders(EntriesToVisit(frames[idx], col_schemas)) :
         LET r == _ensure_consistent_schema(frames[idx], col_schemas, order) IN
         IF r.error # NoError
         THEN /\ RaiseError(r.error)
              /\ resolved' = Tally(resolved, r.resolved)
              /\ UNCHANGED <<arg_frames, frames, idx>>
         ELSE /\ frames' = [frames EXCEPT ![idx] = r.frame]
              /\ arg_frames' = IF arg_frames.kind = "list"
                               THEN [arg_frames EXCEPT !.items[idx] = r.frame]
                               ELSE arg_frames
              /\ idx' = idx + 1
              /\ resolved' = Tally(resolved, r.resolved)
              /\ pc' = IF idx = Len(frames) THEN "branch" ELSE "ensure"
              /\ UNCHANGED error
    /\ UNCHANGED <<arg_keys, arg_names, keys, names, col_schemas,
                   schemas_are_equal, warnings, frames_to_concat, result>>
    /\ UNCHANGED config_vars
    /\ UNCHANGED object_vars

\* Lines 192-196: one element of the list comprehension, the frame idx.
EnsureFrame ==
    /\ pc = "ensure"
    /\ idx <= Len(frames)
    /\ \E order \in Orders(EntriesToVisit(frames[idx], col_schemas)) :
         LET r == _ensure_consistent_schema(frames[idx], col_schemas, order) IN
         IF r.error # NoError
         THEN /\ RaiseError(r.error)
              /\ resolved' = Tally(resolved, r.resolved)
              /\ UNCHANGED <<frames, idx>>
         ELSE /\ frames' = [frames EXCEPT ![idx] = r.frame]
              /\ idx' = idx + 1
              /\ resolved' = Tally(resolved, r.resolved)
              /\ pc' = IF idx = Len(frames) THEN "branch" ELSE "ensure"
              /\ UNCHANGED error
    /\ UNCHANGED <<arg_frames, arg_keys, arg_names, keys, names, col_schemas,
                   schemas_are_equal, warnings, frames_to_concat, result>>
    /\ UNCHANGED config_vars
    /\ UNCHANGED object_vars

\* functools.reduce(union, fs): the union, or the error it raises.
ReturnReduce(fs) ==
    IF Len(fs) = 0
    THEN /\ RaiseError(Err("TypeError", "reduce() of empty sequence"))
         /\ UNCHANGED result
    ELSE IF ~ReduceUnion(fs).ok
    THEN /\ RaiseError(Err("AnalysisException", "unionByName"))
         /\ UNCHANGED result
    ELSE /\ Return(ReduceUnion(fs).table)
         /\ UNCHANGED error

\* Lines 202-204: with no keys and no names the frames are simply unioned.
PlainUnion ==
    /\ pc = "branch"
    /\ ~Truthy(names) /\ ~Truthy(keys)
    /\ ReturnReduce(frames)
    /\ UNCHANGED <<arg_frames, arg_keys, arg_names, frames, keys, names,
                   col_schemas, schemas_are_equal, warnings, idx,
                   frames_to_concat>>
    /\ UNCHANGED resolved
    /\ UNCHANGED config_vars
    /\ UNCHANGED object_vars

\* The first check with <= written for ==.
KeyLengthsAtMostNames(ks, ns) ==
    \A j \in 1..Len(ks.items) : Len(ks.items[j].items) <= Len(ns.items)

\* all([len(key) == len(names) for key in keys])
KeyLengthsEqualNames(ks, ns) ==
    \A j \in 1..Len(ks.items) : Len(ks.items[j].items) = Len(ns.items)

\* all([len(key) == len(keys[0]) for key in keys])
KeyLengthsEqual(ks) ==
    \A j \in 1..Len(ks.items) : Len(ks.items[j].items) = Len(ks.items[1].items)

ConvertedKeys == PyList([j \in 1..Len(keys.items) |-> list_convert(keys.items[j])])

\* Lines 206-218: names and keys become lists, and every key must have
\* as many parts as there are names.
CheckKeys ==
    /\ pc = "branch"
    /\ ~(~Truthy(names) /\ ~Truthy(keys))
    /\ names' = list_convert(names)
    /\ IF keys.kind = "none"
       THEN /\ RaiseError(Err("TypeError", "'NoneType' object is not iterable"))
            /\ UNCHANGED <<keys, idx>>
       ELSE /\ keys' = ConvertedKeys
            /\ IF ~KeyLengthsEqualNames(ConvertedKeys, list_convert(names))
               THEN /\ RaiseError(Err("ValueError",
                          "the length of each key must equal the length of names"))
                    /\ UNCHANGED idx
               ELSE IF ~KeyLengthsEqual(ConvertedKeys)
               THEN /\ RaiseError(Err("ValueError", "all keys must be of equal length"))
                    /\ UNCHANGED idx
               ELSE /\ idx' = 1
                    /\ pc' = "tag"
                    /\ UNCHANGED error
    /\ UNCHANGED <<arg_frames, arg_keys, arg_names, frames, col_schemas,
                   schemas_are_equal, warnings, frames_to_concat, result>>
    /\ UNCHANGED resolved
    /\ UNCHANGED config_vars
    /\ UNCHANGED object_vars

\* Lines 223-226: one turn of the loop over zip(keys, frames).
TagFrame ==
    /\ pc = "tag"
    /\ idx <= Min(Len(keys.items), Len(frames))
    /\ IF NoneItem \in Range(names.items)
       THEN /\ RaiseError(Err("Py4JError", "alias(None)"))
            /\ UNCHANGED <<frames_to_concat, idx>>
       ELSE /\ frames_to_concat' =
                 Append(frames_to_concat,
                        TagFrameWith(frames[idx], names.items, keys.items[idx].items))
            /\ idx' = idx + 1
            /\ UNCHANGED <<error, pc>>
    /\ UNCHANGED <<arg_frames, arg_keys, arg_names, frames, keys, names,
                   col_schemas, schemas_are_equal, warnings, result>>
    /\ UNCHANGED resolved
    /\ UNCHANGED config_vars
    /\ UNCHANGED object_vars

\* Line 228: the union of the tagged frames is returned.
UnionTagged ==
    /\ pc = "tag"
    /\ idx > Min(Len(keys.items), Len(frames))
    /\ ReturnReduce(frames_to_concat)
    /\ UNCHANGED <<arg_frames, arg_keys, arg_names, frames, keys, names,
                   col_schemas, schemas_are_equal, warnings, idx,
                   frames_to_concat>>
    /\ UNCHANGED resolved
    /\ UNCHANGED config_vars
    /\ UNCHANGED object_vars

Next ==
    \/ Normalise
    \/ CollectSchemas
    \/ CompareSchemas
    \/ EnsureFrame
    \/ PlainUnion
    \/ CheckKeys
    \/ TagFrame
    \/ UnionTagged

Spec == Init /\ [][Next]_vars

-----------------------------------------------------------------------------
(* Config.get_config_dir.                                                  *)

\* Values of CPRICES_CONFIG: unset, empty, and strs that name a folder.
EnvValues ==
    {PyNone,
     StrOf(<<>>),
     StrOf(<<"/", "data", "/", "config">>),
     StrOf(<<"/", "data", "/", "config", "/">>),
     StrOf(<<"/", "home", "/", "user", "/", "config">>),
     StrOf(<<".", "/", "config">>)}

\* Working directories: the home directory, a folder in it, another place.
WorkDirs ==
    {Home, joinpath(Home, <<"cprices">>), Path(StrOf(<<"/", "work">>))}

\* The paths named config that can exist, as folders or as files.
ConfigPaths ==
    {joinpath(d, <<"config">>) :
        d \in WorkDirs \cup {joinpath(Home, <<"cprices", "cprices">>)}}

\* No call of concat is under way.
ConcatIdle ==
    /\ arg_frames = FramesArg("list", <<>>, <<>>)
    /\ arg_keys = PyNone
    /\ arg_names = PyNone
    /\ frames = <<>>
    /\ keys = PyNone
    /\ names = PyNone
    /\ col_schemas = {}
    /\ schemas_are_equal = TRUE
    /\ warnings = <<>>
    /\ idx = 0
    /\ resolved = <<>>
    /\ frames_to_concat = <<>>
    /\ result = NoTable
    /\ error = NoError
    /\ pc = "idle"

InitConfig ==
    /\ ConcatIdle
    /\ ObjectIdle
    /\ environ \in EnvValues
    /\ exists \in SUBSET ConfigPaths
    /\ is_dir \in SUBSET exists
    /\ cwd \in WorkDirs
    /\ loc = 0
    /\ config_dir = NoPath
    /\ config_pc = "getenv"

\* The locations in docstring order: working directory first.
LocationsCwdFirst ==
    <<cwd,
      Home,
      joinpath(Home, <<"cprices">>),
      joinpath(Home, <<"cprices", "cprices">>)>>

\* Lines 67-73: the tuple the loop runs over.
Locations ==
    <<joinpath(Home, <<"cprices", "cprices">>),
      joinpath(Home, <<"cprices">>),
      Home,
      cwd>>

\* Lines 63-65: a non-empty CPRICES_CONFIG is returned as a Path.
GetEnv ==
    /\ config_pc = "getenv"
    /\ IF Truthy(environ)
       THEN /\ config_dir' = Path(environ)
            /\ config_pc' = "returned"
            /\ UNCHANGED loc
       ELSE /\ loc' = 1
            /\ config_pc' = "search"
            /\ UNCHANGED config_dir
    /\ UNCHANGED <<environ, exists, is_dir, cwd>>
    /\ UNCHANGED concat_vars
    /\ UNCHANGED object_vars

\* Lines 67-76: one turn of the loop, the location loc.
TryLocation ==
    /\ config_pc = "search"
    /\ loc <= Len(Locations)
    /\ IF joinpath(Locations[loc], <<"config">>) \in exists
       THEN /\ config_dir' = joinpath(Locations[loc], <<"config">>)
            /\ config_pc' = "returned"
            /\ UNCHANGED loc
       ELSE /\ loc' = loc + 1
            /\ UNCHANGED <<config_dir, config_pc>>
    /\ UNCHANGED <<environ, exists, is_dir, cwd>>
    /\ UNCHANGED concat_vars
    /\ UNCHANGED object_vars

\* The loop ends without a return: the function returns None.
NoLocation ==
    /\ config_pc = "search"
    /\ loc > Len(Locations)
    /\ config_dir' = NoPath
    /\ config_pc' = "returned"
    /\ UNCHANGED <<environ, exists, is_dir, cwd, loc>>
    /\ UNCHANGED concat_vars
    /\ UNCHANGED object_vars

NextConfig ==
    \/ GetEnv
    \/ TryLocation
    \/ NoLocation

SpecConfig == InitConfig /\ [][NextConfig]_vars

-----------------------------------------------------------------------------
(* The attributes of a Config object.                                      *)

\* key in d
DictHas(d, k) == k \in Range(d.items)

DictPos(d, k) == CHOOSE i \in 1..Len(d.items) : d.items[i] = k

\* d[key], for a key of d
DictGet(d, k) == d.vals[DictPos(d, k)]

Without(s, i) == [j \in 1..(Len(s) - 1) |-> IF j < i THEN s[j] ELSE s[j + 1]]

\* d after d.pop(key), for a key of d
DictPop(d, k) ==
    PyDict(Without(d.items, DictPos(d, k)), Without(d.vals, DictPos(d, k)))

\* vars(self) after setattr(self, key, value): a new key goes to the end.
setattr(d, k, v) ==
    IF DictHas(d, k)
    THEN PyDict(d.items, [d.vals EXCEPT ![DictPos(d, k)] = v])
    ELSE PyDict(Append(d.items, k), Append(d.vals, v))

RECURSIVE UpdateFrom(_, _, _)
UpdateFrom(d, attrs, i) ==
    IF i > Len(attrs.items) THEN d
    ELSE UpdateFrom(setattr(d, attrs.items[i], attrs.vals[i]), attrs, i + 1)

\* Config.update: every key of the mapping becomes an attribute.
update(d, attrs) == UpdateFrom(d, attrs, 1)

\* isinstance(x, abc.Mapping)
IsMapping(x) == x.kind = "mapping"

\* The characters of the strings of the model, as iterating a str gives.
Chars(s) ==
    CASE s = "bramble" -> <<"b", "r", "a", "m", "b", "l", "e">>
      [] s = "shop" -> <<"s", "h", "o", "p">>
      [] s = "region" -> <<"r", "e", "g", "i", "o", "n">>
      [] s = "" -> <<>>
      [] OTHER -> <<s>>

\* What iterating a value yields: the items of a list or tuple, the
\* characters of a str, the keys of a mapping.
IterItems(x) == IF x.kind = "str" THEN Chars(x.items[1]) ELSE x.items

Iterable(x) == x.kind \in {"list", "tuple", "str", "mapping"}

\* helpers.is_non_string_sequence: a sequence that is no str.
is_non_string_sequence(x) == x.kind \in {"list", "tuple"}

\* Config.extend_attr: vars(self) after the call, or the error it raises.
extend_attr(d, attr, extend_vals) ==
    IF ~DictHas(d, attr)
    THEN [dict |-> d,
          error |-> Err("AttributeError",
                        "'Config' object has no attribute '" \o attr \o "'")]
    ELSE LET current_vals == DictGet(d, attr)
         IN  IF ~is_non_string_sequence(current_vals)
             THEN [dict |-> d,
                   error |-> Err("AttributeError",
                                 "attribute " \o attr \o " is not an extendable type")]
             ELSE IF ~Iterable(extend_vals)
             THEN [dict |-> d,
                   error |-> Err("TypeError", "object is not iterable")]
             ELSE [dict |-> setattr(d, attr,
                                    [kind |-> current_vals.kind,
                                     items |-> current_vals.items
                                                 \o IterItems(extend_vals)]),
                   error |-> NoError]

\* The three column attributes DevConfig.add_strata extends.
column_attrs ==
    <<"strata_cols", "scanner_preprocess_cols", "scanner_data_columns">>

\* One round of the loop of add_strata, for one column attribute.
AddStrataTo(d, attr, extra_strata) ==
    IF ~DictHas(d, attr) /\ list_convert(extra_strata).items # <<>>
    THEN [dict |-> d,
          error |-> Err("AttributeError",
                        "'Config' object has no attribute '" \o attr \o "'")]
    ELSE LET missing_strata ==
                 SelectSeq(list_convert(extra_strata).items,
                           LAMBDA c : c \notin Range(DictGet(d, attr).items))
         IN  extend_attr(d, attr, PyList(missing_strata))

RECURSIVE AddStrataFrom(_, _, _)
AddStrataFrom(d, extra_strata, i) ==
    IF i > Len(column_attrs) THEN [dict |-> d, error |-> NoError]
    ELSE LET r == AddStrataTo(d, column_attrs[i], extra_strata)
         IN  IF r.error # NoError THEN r
             ELSE AddStrataFrom(r.dict, extra_strata, i + 1)

\* DevConfig.add_strata: vars(self) after the call, or the error raised.
add_strata(d, extra_strata) == AddStrataFrom(d, extra_strata, 1)

\* ScenarioSectionError(config, section): the exception the constructor
\* gives, or the error of reading config.name.
ScenarioSectionError(config, section) ==
    IF IsMapping(config) /\ DictHas(config, "name")
    THEN Err("ScenarioSectionError",
             DictGet(config, "name").items[1] \o ": " \o section
                 \o " does not appear among the config parameters.")
    ELSE Err("AttributeError",
             "'" \o config.kind \o "' object has no attribute 'name'")

\* to_unpack if to_unpack else []
ToUnpack == IF Truthy(arg2) THEN arg2.items ELSE <<>>

Called(m) == method = m

\* set_attrs: attrs must be a mapping.
SetAttrsCheck ==
    /\ Called("set_attrs")
    /\ method_pc = "check"
    /\ IF ~IsMapping(arg)
       THEN /\ exc' = Err("ConfigFormatError",
                          "attributes or config yaml must be a mapping")
            /\ method_pc' = "raised"
       ELSE /\ exc' = exc
            /\ method_pc' = "unpack"
    /\ step' = 1
    /\ UNCHANGED <<method, self_dict, self_before, arg, arg_before, arg2>>
    /\ UNCHANGED concat_vars
    /\ UNCHANGED config_vars

\* set_attrs: one round of the loop over to_unpack.
SetAttrsUnpack ==
    /\ Called("set_attrs")
    /\ method_pc = "unpack"
    /\ step <= Len(ToUnpack)
    /\ LET attr == ToUnpack[step]
       IN  IF ~DictHas(arg, attr)
           THEN /\ exc' = Err("KeyError", attr)
                /\ method_pc' = "raised"
                /\ UNCHANGED <<arg, self_dict, step>>
           ELSE LET nested_mapping == DictGet(arg, attr)
                IN  /\ arg' = DictPop(arg, attr)
                    /\ IF ~IsMapping(nested_mapping)
                       THEN /\ exc' = Err("TypeError",
                                          "given attr " \o attr
                                              \o " to unpack must be a mapping")
                            /\ method_pc' = "raised"
                            /\ UNCHANGED <<self_dict, step>>
                       ELSE /\ self_dict' = update(self_dict, nested_mapping)
                            /\ step' = step + 1
                            /\ UNCHANGED <<exc, method_pc>>
    /\ UNCHANGED <<method, self_before, arg_before, arg2>>
    /\ UNCHANGED concat_vars
    /\ UNCHANGED config_vars

\* set_attrs: what is left of attrs becomes attributes.
SetAttrsUpdate ==
    /\ Called("set_attrs")
    /\ method_pc = "unpack"
    /\ step > Len(ToUnpack)
    /\ self_dict' = update(self_dict, arg)
    /\ method_pc' = "returned"
    /\ UNCHANGED <<method, self_before, arg, arg_before, arg2, step, exc>>
    /\ UNCHANGED concat_vars
    /\ UNCHANGED config_vars

\* extend_attr(attr, extend_vals)
ExtendAttr ==
    /\ Called("extend_attr")
    /\ method_pc = "check"
    /\ LET r == extend_attr(self_dict, arg.items[1], arg2)
       IN  /\ self_dict' = r.dict
           /\ exc' = r.error
           /\ method_pc' = IF r.error = NoError THEN "returned" ELSE "raised"
    /\ UNCHANGED <<method, self_before, arg, arg_before, arg2, step>>
    /\ UNCHANGED concat_vars
    /\ UNCHANGED config_vars

\* add_strata: one round of the loop over the column attributes.
AddStrata ==
    /\ Called("add_strata")
    /\ method_pc = "check"
    /\ step <= Len(column_attrs)
    /\ LET r == AddStrataTo(self_dict, column_attrs[step], arg)
       IN  /\ self_dict' = r.dict
           /\ exc' = r.error
           /\ method_pc' = IF r.error # NoError THEN "raised"
                           ELSE IF step = Len(column_attrs) THEN "returned"
                           ELSE "check"
    /\ step' = step + 1
    /\ UNCHANGED <<method, self_before, arg, arg_before, arg2>>
    /\ UNCHANGED concat_vars
    /\ UNCHANGED config_vars

\* check_config_sections_exist: one round of the loop over the sections.
CheckSection ==
    /\ Called("check_config_sections_exist")
    /\ method_pc = "check"
    /\ step <= Len(arg.items)
    /\ LET key == arg.items[step]
       IN  IF ~DictHas(self_dict, key)
           THEN /\ exc' = IF DictHas(self_dict, "name")
                           THEN ScenarioSectionError(DictGet(self_dict, "name"), key)
                           ELSE Err("AttributeError",
                                    "'Config' object has no attribute 'name'")
                /\ method_pc' = "raised"
                /\ step' = step
           ELSE /\ step' = step + 1
                /\ UNCHANGED <<exc, method_pc>>
    /\ UNCHANGED <<method, self_dict, self_before, arg, arg_before, arg2>>
    /\ UNCHANGED concat_vars
    /\ UNCHANGED config_vars

\* check_config_sections_exist: every section was found.
CheckSectionsDone ==
    /\ Called("check_config_sections_exist")
    /\ method_pc = "check"
    /\ step > Len(arg.items)
    /\ method_pc' = "returned"
    /\ UNCHANGED <<method, self_dict, self_before, arg, arg_before, arg2,
                   step, exc>>
    /\ UNCHANGED concat_vars
    /\ UNCHANGED config_vars


\* The sequences over S of at most n items.
SeqsUpTo(S, n) == UNION {[1..k -> S] : k \in 0..n}

\* A call of method m on an object with attributes d.
StartCall(m, d, a, a2) ==
    /\ method = m
    /\ self_dict = d
    /\ self_before = d
    /\ arg = a
    /\ arg_before = a
    /\ arg2 = a2
    /\ step = 1
    /\ exc = NoError
    /\ method_pc = "check"

Names == PyDict(<<"jenny", "bruce">>, <<PyStr("female"), PyStr("male")>>)

Kids == PyDict(<<"toby">>, <<PyStr("male")>>)

\* What set_attrs is given as attrs: mappings, and values that are none.
AttrsValues ==
    {PyDict(<<>>, <<>>),
     PyDict(<<"names", "kids">>, <<Names, Kids>>),
     PyDict(<<"rice", "pasta">>, <<PyList(<<"basmati">>), PyList(<<"penne">>)>>),
     PyDict(<<"names", "rice">>, <<Names, PyList(<<"basmati">>)>>),
     PyDict(<<"names", "jenny">>, <<Names, PyStr("other")>>),
     PyStr("yelp"),
     PyList(<<"1", "2", "3">>)}

ToUnpackValues ==
    {PyNone} \cup {PyList(s) : s \in SeqsUpTo({"names", "rice", "kids"}, MaxVals)}

SetAttrsObjects ==
    {PyDict(<<>>, <<>>),
     PyDict(<<"name">>, <<PyStr("dev")>>),
     PyDict(<<"names", "jenny">>, <<PyStr("old"), PyStr("old")>>)}

SetAttrsCalls ==
    \E d \in SetAttrsObjects, a \in AttrsValues, u \in ToUnpackValues :
        StartCall("set_attrs", d, a, u)

ExtendObjects ==
    {PyDict(<<"name", "plants">>, <<PyStr("dev"), v>>) :
        v \in {PyList(<<"jasmine", "ivy">>), PyTuple(<<"jasmine", "ivy">>),
               PyList(<<>>), PyTuple(<<>>), PyStr("rosemary"), PyNone,
               PyDict(<<"one">>, <<PyStr("1")>>)}}

ExtendValues ==
    {PyList(s) : s \in SeqsUpTo({"bramble", "shop"}, MaxVals)}
        \cup {PyTuple(s) : s \in SeqsUpTo({"bramble", "shop"}, MaxVals)}
        \cup {PyStr("bramble"), PyStr("b"), PyNone}

ExtendAttrCalls ==
    \E d \in ExtendObjects, attr \in {"plants", "herbs"}, v \in ExtendValues :
        StartCall("extend_attr", d, PyStr(attr), v)

ColumnLists ==
    {PyList(<<"sku">>), PyList(<<"sku", "region">>), PyTuple(<<"sku", "shop">>)}

StrataObjects ==
    {PyDict(column_attrs, cs) : cs \in [1..3 -> ColumnLists]}
        \cup {PyDict(<<"strata_cols">>, <<PyList(<<"sku">>)>>)}

StrataValues ==
    {PyList(s) : s \in SeqsUpTo({"region", "shop"}, MaxVals)}
        \cup {PyTuple(s) : s \in SeqsUpTo({"region", "shop"}, MaxVals)}
        \cup {PyStr("region")}

AddStrataCalls ==
    \E d \in StrataObjects, extra_strata \in StrataValues :
        StartCall("add_strata", d, extra_strata, PyNone)

Sections == <<"input_data", "preprocessing", "indices">>

\* A config with a name and some of the sections.
SectionObjects ==
    {LET ks == SelectSeq(Sections, LAMBDA k : k \in S)
     IN  PyDict(<<"name">> \o ks,
                <<PyStr("scenario")>> \o [i \in 1..Len(ks) |-> PyDict(<<>>, <<>>)]) :
        S \in SUBSET Range(Sections)}

CheckSectionsCalls ==
    \E d \in SectionObjects, s \in SeqsUpTo(Range(Sections), MaxVals) :
        StartCall("check_config_sections_exist", d, PyList(s), PyNone)

InitObject ==
    /\ ConcatIdle
    /\ ConfigIdle
    /\ \/ SetAttrsCalls
       \/ ExtendAttrCalls
       \/ AddStrataCalls
       \/ CheckSectionsCalls

NextObject ==
    \/ SetAttrsCheck
    \/ SetAttrsUnpack
    \/ SetAttrsUpdate
    \/ ExtendAttr
    \/ AddStrata
    \/ CheckSection
    \/ CheckSectionsDone

SpecObject == InitObject /\ [][NextObject]_vars

-----------------------------------------------------------------------------
(* What the caller passed, for the statements below.                       *)

Returned == pc = "returned"

Raised == pc = "raised"

\* The keys the call works with: the given ones, else those of the mapping.
GivenKeys ==
    IF arg_keys.kind = "none" /\ arg_frames.kind = "mapping"
    THEN PyList(arg_frames.mkeys)
    ELSE arg_keys

KeyPos(k) ==
    IF k \in Range(arg_frames.mkeys)
    THEN CHOOSE i \in 1..Len(arg_frames.mkeys) : arg_frames.mkeys[i] = k
    ELSE 0

\* The batch is a non-empty collection of tables, with as many keys as
\* tables when it is a list, and names and existing keys when a mapping.
ValidBatch ==
    /\ arg_frames.kind # "frame"
    /\ arg_frames.items # <<>>
    /\ arg_frames.kind = "list" /\ Truthy(arg_keys)
         => Len(arg_keys.items) = Len(arg_frames.items)
    /\ arg_frames.kind = "mapping"
         => /\ arg_names.kind # "none"
            /\ \A j \in 1..Len(GivenKeys.items) : KeyPos(GivenKeys.items[j]) # 0
            /\ GivenKeys.items # <<>>
    /\ \A i \in 1..Len(arg_frames.items) : arg_frames.items[i].isdf

\* The input tables of a valid batch, in the order they are to be unioned.
InputTables ==
    IF arg_frames.kind = "mapping"
    THEN [j \in 1..Len(GivenKeys.items) |-> arg_frames.items[KeyPos(GivenKeys.items[j])]]
    ELSE arg_frames.items

\* The parts of a key as the caller wrote it: a str is one part.
PartsOf(key) == key.items

\* The tag names as the caller wrote them: a str is one name.
TagNamesGiven == arg_names.items

\* The position in InputTables of the table a row was made from.
TablePos(row) ==
    CHOOSE p \in 1..Len(InputTables) :
        \E r \in 1..Len(InputTables[p].rows) : InputTables[p].rows[r].id = row.id

InputColumns == UNION {Range(Columns(InputTables[p])) : p \in 1..Len(InputTables)}

\* The types a column name has across the input tables.
ObservedTypes(n) ==
    {DtypeOf(InputTables[p], n) :
        p \in {q \in 1..Len(InputTables) : HasCol(InputTables[q], n)}}

-----------------------------------------------------------------------------
(* Provenance tags.                                                        *)

\* C1: when a call with tag names and one key per table returns, the tag
\* columns are the first columns of the output, in the caller's order of
\* the names, and every output row made from the i-th table holds the j-th
\* part of the i-th key in the j-th tag column.
C1_TagsCarryKeyParts ==
    (/\ Returned
     /\ Truthy(arg_names)
     /\ Len(GivenKeys.items) = Len(InputTables))
    => /\ Len(result.cols) >= Len(TagNamesGiven)
       /\ \A j \in 1..Len(TagNamesGiven) : result.cols[j].name = TagNamesGiven[j]
       /\ \A r \in 1..Len(result.rows) : \A j \in 1..Len(TagNamesGiven) :
            result.rows[r].cells[j] =
                LitCell(PartsOf(GivenKeys.items[TablePos(result.rows[r])])[j])

\* A call with two tag names on three tables has returned rows of the
\* third table.
C1_Witness ==
    /\ Returned
    /\ Len(TagNamesGiven) = 2
    /\ Len(GivenKeys.items) = Len(InputTables)
    /\ Len(InputTables) = 3
    /\ \E r \in 1..Len(result.rows) : result.rows[r].id[1] = 3

\* C2: when a call returns, the column names of the output are the tag
\* names and the column names of all input tables, each exactly once.
C2_OutputColumnsAreTagsAndUnion ==
    Returned =>
        /\ NoDuplicates(Columns(result))
        /\ Range(Columns(result)) =
             (IF Truthy(arg_names) THEN Range(TagNamesGiven) ELSE {}) \cup InputColumns

\* A tagged call has returned for tables of which one lacks a column of
\* another.
C2_Witness ==
    /\ Returned
    /\ Truthy(arg_names)
    /\ \E p, q \in 1..Len(InputTables) :
         Range(Columns(InputTables[p])) # Range(Columns(InputTables[q]))

-----------------------------------------------------------------------------
(* Type promotion.                                                         *)

\* The frames have been through the comparison and, where the schemas
\* were unequal, through _ensure_consistent_schema.
Reconciled == pc \in {"branch", "tag", "returned"}

\* The numeric types, widest first.
WidestFirst ==
    <<"decimal(10,0)", "double", "float", "bigint", "int", "smallint",
      "tinyint">>

Widest(types) ==
    WidestFirst[CHOOSE i \in 1..Len(WidestFirst) :
                    /\ WidestFirst[i] \in types
                    /\ \A j \in 1..(i - 1) : WidestFirst[j] \notin types]

AllNumeric(types) == types \subseteq Range(WidestFirst)

\* Every frame about to be unioned, and the output once returned, has the
\* column n with the type dtype.
ColumnHasType(n, dtype) ==
    /\ \A i \in 1..Len(frames) : HasCol(frames[i], n) /\ DtypeOf(frames[i], n) = dtype
    /\ Returned =>
         /\ HasCol(result, n)
         /\ DtypeOf(result, n) = dtype
         /\ \A r \in 1..Len(result.rows) :
              result.rows[r].cells[ColPos(result, n)].dtype = dtype

\* C3: a column name observed with several types, all of them numeric,
\* gets the observed type that comes first in the widest-first order.
C3_NumericConflictTakesWidest ==
    Reconciled =>
        \A n \in InputColumns :
            (Cardinality(ObservedTypes(n)) > 1 /\ AllNumeric(ObservedTypes(n)))
            => ColumnHasType(n, Widest(ObservedTypes(n)))

\* A call has returned for tables with three numeric types of one column.
C3_Witness ==
    /\ Returned
    /\ \E n \in InputColumns :
         /\ Cardinality(ObservedTypes(n)) = 3
         /\ AllNumeric(ObservedTypes(n))
         /\ DtypeOf(result, n) # DtypeOf(InputTables[1], n)

\* C4: a column name observed with several types, not all numeric and one
\* of them string, gets the type string; the call does not fail over it.
C4_StringWins ==
    /\ Reconciled =>
         \A n \in InputColumns :
             (/\ Cardinality(ObservedTypes(n)) > 1
              /\ ~AllNumeric(ObservedTypes(n))
              /\ "string" \in ObservedTypes(n))
             => ColumnHasType(n, "string")
    /\ (Raised /\ error.column # "") => "string" \notin ObservedTypes(error.column)

\* A call has returned for tables with a string, a non-numeric and a
\* numeric type of one column.
C4_Witness ==
    /\ Returned
    /\ \E n \in InputColumns :
         /\ "string" \in ObservedTypes(n)
         /\ ObservedTypes(n) \cap {"boolean", "date"} # {}
         /\ ObservedTypes(n) \cap Range(WidestFirst) # {}
         /\ DtypeOf(result, n) = "string"

\* The column names whose types cannot be reconciled.
Unresolvable ==
    {n \in InputColumns :
        /\ Cardinality(ObservedTypes(n)) > 1
        /\ ~AllNumeric(ObservedTypes(n))
        /\ "string" \notin ObservedTypes(n)}

ResolvedType(n) ==
    IF Cardinality(ObservedTypes(n)) = 1
    THEN CHOOSE d \in ObservedTypes(n) : TRUE
    ELSE IF AllNumeric(ObservedTypes(n)) THEN Widest(ObservedTypes(n))
    ELSE "string"

NullOf(dtype) == [NullCell EXCEPT !.dtype = dtype]

\* C6: for every input table T and every column name of another table
\* that T lacks, the frame T contributes to the union has that column, of
\* the resolved type, with a null in each of its row_count(T) rows; the
\* output rows made from T hold that null.
C6_AbsentColumnIsNullFilled ==
    Reconciled =>
        \A p \in 1..Len(InputTables) :
        \A n \in InputColumns \ Range(Columns(InputTables[p])) :
            /\ HasCol(frames[p], n)
            /\ DtypeOf(frames[p], n) = ResolvedType(n)
            /\ Len(frames[p].rows) = Len(InputTables[p].rows)
            /\ \A r \in 1..Len(frames[p].rows) :
                 /\ frames[p].rows[r].id = InputTables[p].rows[r].id
                 /\ frames[p].rows[r].cells[ColPos(frames[p], n)]
                      = NullOf(ResolvedType(n))
            /\ Returned =>
                 \A r \in 1..Len(result.rows) :
                     TablePos(result.rows[r]) = p
                     => result.rows[r].cells[ColPos(result, n)]
                          = NullOf(ResolvedType(n))

\* A call has returned rows of a two-row table that lacks a column which
\* has two types in the other tables.
C6_Witness ==
    /\ Returned
    /\ \E p \in 1..Len(InputTables) :
       \E n \in InputColumns \ Range(Columns(InputTables[p])) :
         /\ Cardinality(ObservedTypes(n)) = 2
         /\ Len(InputTables[p].rows) = 2
         /\ Cardinality({r \in 1..Len(result.rows) :
                           /\ TablePos(result.rows[r]) = p
                           /\ result.rows[r].cells[ColPos(result, n)].src = "null"}) = 2

-----------------------------------------------------------------------------
(* Rows, and the arity of keys and names.                                  *)

RowIds(table) == [r \in 1..Len(table.rows) |-> table.rows[r].id]

\* The rows of the first k tables, table after table.
RECURSIVE RowIdsUpTo(_, _)
RowIdsUpTo(tables, k) ==
    IF k = 0 THEN <<>> ELSE RowIdsUpTo(tables, k - 1) \o RowIds(tables[k])

C8_KeyCountMismatchFails ==
    (/\ arg_frames.kind = "list"
     /\ arg_keys.kind # "none"
     /\ Len(arg_keys.items) # Len(arg_frames.items))
    => /\ ~Returned
       /\ Raised => error.type = "ValueError"

\* Some key has not as many parts as there are tag names, or two keys
\* have different numbers of parts.
KeyArityMismatch ==
    \/ \E j \in 1..Len(GivenKeys.items) :
         Len(PartsOf(GivenKeys.items[j])) # Len(TagNamesGiven)
    \/ \E j, k \in 1..Len(GivenKeys.items) :
         Len(PartsOf(GivenKeys.items[j])) # Len(PartsOf(GivenKeys.items[k]))

C10_ListWithoutKeysNeverReturns ==
    (arg_frames.kind = "list" /\ arg_keys.kind = "none") => ~Returned

-----------------------------------------------------------------------------
(* Mapping input.                                                          *)

\* The mapping key under which the table of a row was passed.
MappingKeyOf(row) == arg_frames.mkeys[row.id[1]]

\* C11: when a call on a mapping returns, the output rows are the rows of
\* the tables named by the keys, in the order of the keys (all tables of
\* the mapping, in the mapping's order, when no keys are given), and every
\* row holds the parts of the mapping key of its table in the tag columns.
C11_MappingTablesSelectedAndTagged ==
    (Returned /\ arg_frames.kind = "mapping") =>
        /\ RowIds(result) =
             RowIdsUpTo([j \in 1..Len(GivenKeys.items) |->
                           arg_frames.items[KeyPos(GivenKeys.items[j])]],
                        Len(GivenKeys.items))
        /\ \A r \in 1..Len(result.rows) :
           \A j \in 1..Len(PartsOf(MappingKeyOf(result.rows[r]))) :
             /\ result.cols[j].name = TagNamesGiven[j]
             /\ result.rows[r].cells[j]
                  = LitCell(PartsOf(MappingKeyOf(result.rows[r]))[j])

\* A call on a mapping of three tables has returned the third table's
\* rows before the first table's and none of the second.
C11_Witness ==
    /\ Returned
    /\ arg_frames.kind = "mapping"
    /\ Len(arg_frames.items) = 3
    /\ arg_keys.kind # "none"
    /\ Len(result.rows) > 1
    /\ result.rows[1].id[1] = 3
    /\ result.rows[Len(result.rows)].id[1] = 1
    /\ \A r \in 1..Len(result.rows) : result.rows[r].id[1] # 2

\* The place of a key in the sorted order of the keys: the keys of the
\* input universe sort as the table numbers they are built from.
KeyRank(key) == CHOOSE i \in 1..(MaxFrames + 1) : KeyPart(i, 1) = key.items[1]

\* C12: when a call on a mapping without keys returns, the rows of the
\* output follow the sorted order of the mapping keys of their tables,
\* whatever the insertion order of the mapping.
C12_MappingUnionInSortedKeyOrder ==
    (Returned /\ arg_frames.kind = "mapping" /\ arg_keys.kind = "none") =>
        \A r \in 1..(Len(result.rows) - 1) :
            KeyRank(MappingKeyOf(result.rows[r]))
                <= KeyRank(MappingKeyOf(result.rows[r + 1]))

-----------------------------------------------------------------------------
(* Input that is no batch of tables.                                       *)

\* C13: a call on an empty collection, a sequence, another sized iterable
\* or a mapping, does nothing but raise ValueError "No objects to
\* concatenate"; no table is returned.
C13_EmptyCollectionFails ==
    (arg_frames.kind \in {"list", "view", "mapping"} /\ arg_frames.items = <<>>) =>
        /\ pc \in {"normalise", "raised"}
        /\ result = NoTable
        /\ Raised => error = Err("ValueError", "No objects to concatenate")

\* A call on an empty mapping, with names and keys given, has raised.
C13_Witness ==
    /\ Raised
    /\ arg_frames.kind = "mapping"
    /\ arg_frames.items = <<>>
    /\ arg_names.kind # "none"
    /\ arg_keys.kind # "none"
    /\ error.type = "ValueError"

\* The argument checks of lines 145-173 pass.
ArgumentsPass ==
    /\ arg_frames.kind \in {"list", "view", "mapping"}
    /\ arg_frames.items # <<>>
    /\ arg_frames.kind = "list" =>
         (~Truthy(arg_keys) \/ Len(arg_keys.items) = Len(arg_frames.items))
    /\ arg_frames.kind = "mapping" =>
         /\ arg_names.kind # "none"
         /\ \A j \in 1..Len(GivenKeys.items) : KeyPos(GivenKeys.items[j]) # 0

\* C14: a call on a single DataFrame raises TypeError straight away, and a
\* call whose arguments are otherwise in order, with an element to
\* concatenate that is no DataFrame, raises TypeError before any schema is
\* compared; neither returns a table.
C14_NonTableInputFails ==
    /\ arg_frames.kind = "frame" =>
         /\ pc \in {"normalise", "raised"}
         /\ result = NoTable
         /\ Raised => error = Err("TypeError", "first argument must be an iterable")
    /\ (ArgumentsPass /\ \E i \in 1..Len(InputTables) : ~InputTables[i].isdf) =>
         /\ pc \in {"normalise", "collect", "raised"}
         /\ result = NoTable
         /\ Raised => error = Err("TypeError", "cannot concatenate object")

\* A call on three elements whose first two are DataFrames and whose
\* third is not has raised TypeError.
C14_Witness ==
    /\ Raised
    /\ error = Err("TypeError", "cannot concatenate object")
    /\ Len(arg_frames.items) = 3
    /\ arg_frames.items[1].isdf
    /\ arg_frames.items[2].isdf
    /\ ~arg_frames.items[3].isdf

-----------------------------------------------------------------------------
(* Equal schemas.                                                          *)

\* Every input table has the same column names with the same types.
IdenticalSchemas ==
    \A p, q \in 1..Len(InputTables) :
        DtypeSet(InputTables[p]) = DtypeSet(InputTables[q])

\* C15: in a call on a valid batch of tables that all have the same column
\* names with the same types, no warning is issued, no frame goes through
\* _ensure_consistent_schema, the frames stay the input tables, and when
\* the call returns, the output has the tag columns followed by the columns
\* of the first table with their input types, and every output row holds,
\* under each column name, the cell its input row has under that name,
\* uncast.
C15_EqualSchemasAreUnionedUnmodified ==
    (ValidBatch /\ IdenticalSchemas) =>
        /\ warnings = <<>>
        /\ pc # "ensure"
        /\ pc \in {"compare", "branch", "tag", "returned"} => frames = InputTables
        /\ Returned =>
             LET k == Len(TagNamesGiven) IN
             /\ [c \in 1..(Len(result.cols) - k) |-> result.cols[k + c]]
                  = InputTables[1].cols
             /\ \A r \in 1..Len(result.rows) :
                \A c \in 1..Len(InputTables[1].cols) :
                   result.rows[r].cells[k + c]
                     = DataCell(result.rows[r].id[1], result.rows[r].id[2],
                                InputTables[1].cols[c].name,
                                InputTables[1].cols[c].dtype)

\* A tagged call on tables with the same two columns in different orders
\* has returned.
C15_Witness ==
    /\ Returned
    /\ ValidBatch
    /\ IdenticalSchemas
    /\ Len(TagNamesGiven) > 0
    /\ Len(InputTables) > 1
    /\ Len(InputTables[1].cols) = 2
    /\ InputTables[2].cols # InputTables[1].cols
    /\ \E r \in 1..Len(result.rows) : result.rows[r].id[1] = 2

-----------------------------------------------------------------------------
(* Column order.                                                           *)

\* The column names of the first k tables in first-seen order: those of
\* the first table in its order, then the new ones of the second in its
\* order, and so on.
RECURSIVE FirstSeenUpTo(_, _)
FirstSeenUpTo(tables, k) ==
    IF k = 0 THEN <<>>
    ELSE LET seen == FirstSeenUpTo(tables, k - 1) IN
         seen \o SelectSeq(Columns(tables[k]), LAMBDA n : n \notin Range(seen))

\* C16: when a call returns, the columns of the output after the tag
\* columns are the column names of the input tables in first-seen order.
C16_DataColumnsInFirstSeenOrder ==
    Returned =>
        LET k == Len(TagNamesGiven) IN
        [c \in 1..(Len(result.cols) - k) |-> result.cols[k + c].name]
            = FirstSeenUpTo(InputTables, Len(InputTables))

-----------------------------------------------------------------------------
(* Order of the stages.                                                    *)

\* Every frame of the list has the same column names with the same types.
FramesConsistent ==
    \A i, j \in 1..Len(frames) : DtypeSet(frames[i]) = DtypeSet(frames[j])

\* C17: a call that has raised has tagged no frame and built no union, and
\* returns no table; a frame is tagged or a union returned only when no
\* error was raised and every frame of the list has gone through the type
\* resolution, all frames having the same columns and types.
C17_FailuresPrecedeCombination ==
    /\ Raised => (frames_to_concat = <<>> /\ result = NoTable)
    /\ (frames_to_concat # <<>> \/ Returned) =>
         /\ error = NoError
         /\ FramesConsistent

\* A call has raised the ValueError of the key checks after the frames of
\* unequal schemas were all made consistent.
C17_Witness ==
    /\ Raised
    /\ error.type = "ValueError"
    /\ ValidBatch
    /\ Len(frames) > 1
    /\ frames # InputTables
    /\ FramesConsistent
    /\ frames_to_concat = <<>>

-----------------------------------------------------------------------------
(* The arguments of the caller.                                            *)

\* C18: no step of a call, whether the call goes on to return or to raise,
\* changes the collection of tables the caller passed, any table in it,
\* the keys or the names; the casts, null columns and tags are in the
\* frames of the call's own list.
C18_ArgumentsNeverChange ==
    [][/\ arg_frames' = arg_frames
       /\ arg_keys' = arg_keys
       /\ arg_names' = arg_names]_vars

\* A call on a list has returned a tagged union after casting or filling
\* its frames, which now differ from the tables of the caller.
C18_Witness ==
    /\ Returned
    /\ arg_frames.kind = "list"
    /\ warnings # <<>>
    /\ Len(TagNamesGiven) > 0
    /\ Len(frames) = Len(arg_frames.items)
    /\ \A i \in 1..Len(frames) : frames[i] # arg_frames.items[i]
    /\ keys # arg_keys

-----------------------------------------------------------------------------
(* The warning of unequal schemas.                                         *)

\* The keys and names let the call go through the key checks and the
\* tagging: neither is given, or both are and every key has as many parts
\* as there are names.
KeysFitNames ==
    \/ ~Truthy(arg_names) /\ ~Truthy(GivenKeys)
    \/ Truthy(arg_names) /\ Truthy(GivenKeys) /\ ~KeyArityMismatch

-----------------------------------------------------------------------------
(* The config directory.                                                   *)

\* The places searched, in the order of the search.
SearchOrder ==
    <<joinpath(Home, <<"cprices", "cprices">>),
      joinpath(Home, <<"cprices">>),
      Home,
      cwd>>

\* The path named config in the first place of the search order that has
\* one among the given paths.
FirstConfigAmong(paths) ==
    LET found == {i \in 1..Len(SearchOrder) :
                    joinpath(SearchOrder[i], <<"config">>) \in paths}
        first == CHOOSE i \in found : \A j \in found : i <= j
    IN  joinpath(SearchOrder[first], <<"config">>)

SomeConfigAmong(paths) ==
    \E i \in 1..Len(SearchOrder) : joinpath(SearchOrder[i], <<"config">>) \in paths

-----------------------------------------------------------------------------
(* The order of validation and comparison.                                 *)

\* C23: a call on a valid batch with names and with a key whose number of
\* parts differs from the number of names, or from that of another key,
\* is stopped by the validation of its arguments: the schemas are never
\* compared, no warning is issued and no frame is cast or filled.
C23_KeyChecksPrecedeComparison ==
    (/\ ValidBatch
     /\ Truthy(arg_names)
     /\ Truthy(GivenKeys)
     /\ KeyArityMismatch) =>
        /\ pc \notin {"ensure", "branch", "tag", "returned"}
        /\ warnings = <<>>
        /\ pc # "normalise" => frames = InputTables

-----------------------------------------------------------------------------
(* One type per column name.                                               *)

\* Every column name has one type across the input tables.
OneTypePerName == \A n \in InputColumns : Cardinality(ObservedTypes(n)) = 1

\* The column names that some input table lacks.
AbsentSomewhere ==
    {n \in InputColumns : \E p \in 1..Len(InputTables) : ~HasCol(InputTables[p], n)}

\* C24: in a call on a valid batch in which every column name has one
\* type across the tables, whether or not some table lacks some column, no
\* warning is issued, no frame goes through _ensure_consistent_schema and
\* the frames stay the input tables.
C24_OneTypePerNameSkipsReconciliation ==
    (ValidBatch /\ OneTypePerName) =>
        /\ warnings = <<>>
        /\ pc # "ensure"
        /\ pc \in {"branch", "tag", "returned"} => frames = InputTables

\* C24, amended: in a call on a valid batch in which every column name has
\* one type across the tables, the reconciliation is skipped, with no
\* warning, exactly when no table lacks a column; when some table lacks a
\* column one warning names the columns absent somewhere, every frame goes
\* through _ensure_consistent_schema, and the frames come out with every
\* column in its one type, their own columns and cells as they were and
\* the absent columns appended.
C24_AbsentColumnForcesReconciliation ==
    (ValidBatch /\ OneTypePerName) =>
        IF AbsentSomewhere = {}
        THEN /\ warnings = <<>>
             /\ pc # "ensure"
             /\ pc \in {"branch", "tag", "returned"} => schemas_are_equal
        ELSE /\ pc \in {"ensure", "branch", "tag", "returned"} =>
                /\ ~schemas_are_equal
                /\ warnings = <<AbsentSomewhere>>
             /\ pc \in {"branch", "tag", "returned"} =>
                \A p \in 1..Len(InputTables) :
                    /\ DtypeSet(frames[p]) = col_schemas
                    /\ Len(frames[p].cols) = Cardinality(InputColumns)
                    /\ \A c \in 1..Len(InputTables[p].cols) :
                          /\ frames[p].cols[c] = InputTables[p].cols[c]
                          /\ \A r \in 1..Len(frames[p].rows) :
                                frames[p].rows[r].cells[c]
                                  = InputTables[p].rows[r].cells[c]

\* A call on tables of one type per column, the first lacking a column of
\* the second, has issued the warning and filled the column.
C24_Witness ==
    /\ pc \in {"branch", "tag", "returned"}
    /\ ValidBatch
    /\ OneTypePerName
    /\ Len(InputTables) > 1
    /\ \E n \in InputColumns : ~HasCol(InputTables[1], n) /\ HasCol(frames[1], n)
    /\ Len(warnings) = 1

-----------------------------------------------------------------------------
(* The frames after the reconciliation.                                    *)

\* The union schema with every column name in its resolved type.
ResolvedSchema == {Col(n, ResolvedType(n)) : n \in InputColumns}

\* C25: once the frames of a valid batch of unequal schemas without
\* irreconcilable column have all gone through the reconciliation, every
\* frame has every column name of the union schema exactly once, and
\* every name in its resolved type: the frames have the same set of
\* (name, type) pairs.
C25_ReconciledFramesShareSchema ==
    (Reconciled /\ ValidBatch /\ ~IdenticalSchemas /\ Unresolvable = {}) =>
        \A p \in 1..Len(frames) :
            /\ NoDuplicates(Columns(frames[p]))
            /\ DtypeSet(frames[p]) = ResolvedSchema
            /\ \A r \in 1..Len(frames[p].rows) :
                  Len(frames[p].rows[r].cells) = Len(frames[p].cols)

\* Three or more tables with a column in several types have been
\* reconciled, every frame changed by a cast or a null column.
C25_Witness ==
    /\ Reconciled
    /\ ValidBatch
    /\ Unresolvable = {}
    /\ Len(frames) > 2
    /\ \E n \in InputColumns : Cardinality(ObservedTypes(n)) > 1
    /\ \A p \in 1..Len(frames) : frames[p] # InputTables[p]

-----------------------------------------------------------------------------
(* Type resolution as a function.                                          *)

\* The column names with several types that are all numeric or include
\* string.
Resolvable ==
    {n \in InputColumns :
        /\ Cardinality(ObservedTypes(n)) > 1
        /\ AllNumeric(ObservedTypes(n)) \/ "string" \in ObservedTypes(n)}

\* C26: for a column name of a valid batch whose several types are all
\* numeric or include string, the resolution never raises for that name;
\* it gives one type for the set of observed types, whichever schema
\* entry it is asked for; that type is one of the observed types; and
\* once the frames are reconciled every frame has the column in that type,
\* whatever the order of the tables.
C26_ResolutionIsFunctionOfObservedTypes ==
    (pc \in {"ensure", "branch", "tag", "returned", "raised"} /\ ValidBatch) =>
        \A n \in Resolvable :
            /\ Raised => error.column # n
            /\ pc \in {"ensure", "branch", "tag", "returned"} =>
                 /\ _get_column_types(col_schemas, n) = ObservedTypes(n)
                 /\ \E t \in ObservedTypes(n) :
                    \A d \in ObservedTypes(n) \cup {"boolean", "date"} :
                        ResolveDtype(ObservedTypes(n), d) = t
            /\ Reconciled =>
                 \A p \in 1..Len(frames) : \A d \in ObservedTypes(n) :
                     DtypeOf(frames[p], n) = ResolveDtype(ObservedTypes(n), d)

\* Three tables with the column x in three number types, the widest in
\* the last table, have been reconciled: the first frame was cast, the
\* last was not.
C26_Witness ==
    /\ Reconciled
    /\ ValidBatch
    /\ Len(InputTables) = 3
    /\ "x" \in Resolvable
    /\ Cardinality(ObservedTypes("x")) = 3
    /\ AllNumeric(ObservedTypes("x"))
    /\ DtypeOf(frames[1], "x") # DtypeOf(InputTables[1], "x")
    /\ DtypeOf(frames[3], "x") = DtypeOf(InputTables[3], "x")

-----------------------------------------------------------------------------
(* How often a type is resolved.                                           *)

\* The column names with several types across the input tables.
Conflicted == {n \in InputColumns : Cardinality(ObservedTypes(n)) > 1}

\* How often the resolution of lines 325-339 ran for the column name n.
TimesResolved(n) == IF n \in DOMAIN resolved THEN resolved[n] ELSE 0

\* C27: once the frames of a valid batch are reconciled, the resolution
\* of lines 325-339 has run exactly once for every column name with
\* several types.
C27_ResolvedOncePerName ==
    (ValidBatch /\ Reconciled) =>
        \A n \in Conflicted : TimesResolved(n) = 1

\* C27, amended: once the frames of a valid batch are reconciled, the
\* resolution has run, for every column name with several types and for
\* every table, once per type of that name other than the table's own:
\* in all, the number of tables times the number of types, less one for
\* every table that has the column; for a name with one type it has not
\* run.
C27_ResolvedPerTableAndEntry ==
    (ValidBatch /\ Reconciled) =>
        /\ \A n \in Conflicted :
             TimesResolved(n)
               = Len(InputTables) * Cardinality(ObservedTypes(n))
                 - Cardinality({p \in 1..Len(InputTables) : HasCol(InputTables[p], n)})
        /\ \A n \in InputColumns \ Conflicted : TimesResolved(n) = 0

\* Three tables, the column x in two types and absent from one table,
\* have been reconciled: the type of x was resolved four times.
C27_Witness ==
    /\ Reconciled
    /\ ValidBatch
    /\ Len(InputTables) = 3
    /\ Cardinality(ObservedTypes("x")) = 2
    /\ \E p \in 1..3 : ~HasCol(InputTables[p], "x")
    /\ TimesResolved("x") = 4

-----------------------------------------------------------------------------
(* The methods of the Config object.                                       *)

MethodReturned == method_pc = "returned"

MethodRaised == method_pc = "raised"

\* The keys of the caller's mapping that are not to be unpacked.
OtherKeys == Range(arg_before.items) \ Range(ToUnpack)

\* What update(attrs) alone makes of the object the call began with.
JustUpdated == update(self_before, arg_before)

\* C21: when set_attrs(attrs, to_unpack) returns, every key of each mapping
\* found at a to_unpack key is an attribute, the mapping itself is the
\* attribute of its own key, and every other key of attrs is an attribute
\* with its value; with no to_unpack the attributes are those update(attrs)
\* gives.
C21_UnpackedKeysAndMappingItselfSet ==
    Called("set_attrs") /\ MethodReturned
        => /\ \A u \in Range(ToUnpack) :
                /\ \A k \in Range(DictGet(arg_before, u).items) :
                        DictHas(self_dict, k)
                /\ DictHas(self_dict, u)
                /\ DictGet(self_dict, u) = DictGet(arg_before, u)
           /\ \A k \in OtherKeys :
                /\ DictHas(self_dict, k)
                /\ DictGet(self_dict, k) = DictGet(arg_before, k)
           /\ ToUnpack = <<>> => self_dict = JustUpdated

\* The values extend_attr is given, as the caller wrote them: a str is one
\* value.
ValuesGiven == IF arg2.kind = "str" THEN arg2.items ELSE IterItems(arg2)

AttrBefore == DictGet(self_before, arg.items[1])

\* C22: extend_attr(attr, vals) on a list or tuple attribute, with vals a
\* list, a tuple or one str, returns with the attribute being its former
\* items followed by the given values in order, in a container of the
\* former type; a str is appended as one element.
C22_ValuesAppendedKeepingContainer ==
    (/\ Called("extend_attr")
     /\ method_pc # "check"
     /\ DictHas(self_before, arg.items[1])
     /\ AttrBefore.kind \in {"list", "tuple"}
     /\ arg2.kind \in {"list", "tuple", "str"})
        => /\ MethodReturned
           /\ DictGet(self_dict, arg.items[1])
                = [kind |-> AttrBefore.kind,
                   items |-> AttrBefore.items \o ValuesGiven]

\* The required sections that are no attribute of the config.
MissingSections == {i \in 1..Len(arg.items) : ~DictHas(self_dict, arg.items[i])}

FirstMissing == arg.items[CHOOSE i \in MissingSections : \A j \in MissingSections : i <= j]

\* C28: check_config_sections_exist ends by raising ScenarioSectionError
\* with a message naming the config and the first missing section when a
\* required section is no attribute of the config, and returns when all
\* required sections are attributes.
C28_MissingSectionRaisesScenarioSectionError ==
    Called("check_config_sections_exist") /\ method_pc # "check"
        => IF MissingSections = {}
           THEN MethodReturned
           ELSE /\ MethodRaised
                /\ exc.type = "ScenarioSectionError"
                /\ exc.msg = DictGet(self_dict, "name").items[1] \o ": "
                                \o FirstMissing
                                \o " does not appear among the config parameters."

\* How often c occurs in the sequence s.
Occurrences(c, s) == Cardinality({i \in 1..Len(s) : s[i] = c})

\* C29: when add_strata(extra_strata) returns, each of the three column
\* attributes holds every given strata column, holds it once when the
\* attribute had no duplicates before, and a second call with the same
\* argument leaves the attributes as they are.
C29_StrataAddedOnceAndIdempotent ==
    Called("add_strata") /\ MethodReturned
        => /\ \A a \in Range(column_attrs) :
                \A c \in Range(list_convert(arg_before).items) :
                    /\ c \in Range(DictGet(self_dict, a).items)
                    /\ NoDuplicates(DictGet(self_before, a).items)
                         => Occurrences(c, DictGet(self_dict, a).items) = 1
           /\ add_strata(self_dict, arg_before)
                = [dict |-> self_dict, error |-> NoError]

\* C30: set_attrs leaves the mapping the caller passed as it was, and when
\* it raises ConfigFormatError or TypeError the attributes of the object
\* are those it had when the call began.
C30_CallerMappingAndObjectUntouched ==
    Called("set_attrs")
        => /\ arg = arg_before
           /\ MethodRaised /\ exc.type \in {"ConfigFormatError", "TypeError"}
                => self_dict = self_before

=============================================================================
